---- MODULE Spec2Model ----
(***************************************************************************)
(* Model of the sdd data-acquisition daemon (src/src/lib.rs, mod dae):     *)
(* the wire codec (FieldType, FieldDescriptor, EntryDescriptor), the two   *)
(* append-only tables of Protocol (strings, descriptors) and the session   *)
(* loop Daemon::run reading from a BufReader over a blocking byte stream.  *)
(*                                                                         *)
(* Representation:                                                         *)
(*   - a byte is a number in 0..255; a Rust String is the sequence of its  *)
(*     UTF-8 bytes (which is what String is), so push_str is \o;           *)
(*   - a u32 is the record [hi, lo] of its two 16-bit halves, because the  *)
(*     magic 0xFEEDBEEF does not fit the model checker's integers;         *)
(*   - an f64 obtained by widening an f32 is [f32 |-> bits of the f32]     *)
(*     (the widening is exact, so the f32 bits determine the f64);         *)
(*   - a panic (unwrap on None, index out of bounds, panic!, expect) ends  *)
(*     the process: outcome = "panic";                                     *)
(*   - the sink (rusqlite, outside this repository) is the sequence ops of *)
(*     the statements issued to Connection::execute, all accepted.         *)
(***************************************************************************)
EXTENDS Integers, Sequences, FiniteSets, TLC

\* ------------------------------------------------------------------ bounds
\* Number of frames (or junk bytes) the producer sends in one session.
MaxFrames == 4
\* Bytes that may wait unread (socket and BufReader) when the producer
\* starts another frame: the producer is throttled by the receive window.
MaxBacklog == 12
\* Number of frames sent in the sessions checked for termination.
MaxShortFrames == 2
\* Largest field count drawn for the codec's inputs (the array holds 32).
MaxK == 32

\* --------------------------------------------------------------- constants
\* lib.rs:133  fields: [Option<FieldDescriptor>; 32]
MAX_FIELDS == 32

\* ------------------------------------------------------------------- bytes
Min(a, b) == IF a < b THEN a ELSE b

\* u32 as two 16-bit halves.
U32(n) == [hi |-> 0, lo |-> n]

\* lib.rs:14  const PROTOCOL: u32 = 0xFEEDBEEF  (0xFEED = 65261, 0xBEEF = 48879)
PROTOCOL == [hi |-> 65261, lo |-> 48879]

\* u32::from_le_bytes: least significant byte first.
from_le_bytes(b) == [lo |-> b[1] + 256 * b[2], hi |-> b[3] + 256 * b[4]]

\* u32::to_le_bytes, used by the producer to encode frames.
to_le_bytes(u) == <<u.lo % 256, u.lo \div 256, u.hi % 256, u.hi \div 256>>

\* The comparison that also accepts a u below n.
usize_eq_le(u, n) == u.hi = 0 /\ u.lo <= n

\* `u as usize` compared with a collection length n (n is far below 2^16).
usize_eq(u, n) == u.hi = 0 /\ u.lo = n
\* n < u as usize
usize_lt(n, u) == u.hi > 0 \/ n < u.lo

\* Vec::get(u as usize): the element at 0-based index u, if any.
in_range(v, u) == u.hi = 0 /\ u.lo < Len(v)
at(v, u) == v[u.lo + 1]

\* Decimal rendering of a number, as write!("{}", n) produces it.
RECURSIVE fmt_display(_)
fmt_display(n) ==
  IF n < 10 THEN <<48 + n>> ELSE fmt_display(n \div 10) \o <<48 + (n % 10)>>

\* ---------------------------------------------------------------- literals
INSERT_INTO == <<73, 78, 83, 69, 82, 84, 32, 73, 78, 84, 79, 32>>
OPEN_PAREN == <<32, 40>>
COMMA == <<44, 32>>
CLOSE_PAREN == <<41>>
VALUES == <<32, 86, 65, 76, 85, 69, 83, 32, 40>>
CREATE_TABLE == <<67, 82, 69, 65, 84, 69, 32, 84, 65, 66, 76, 69, 32>>
SPACE == <<32>>
QMARK == <<63>>
INTEGER == <<73, 78, 84, 69, 71, 69, 82>>
REAL == <<82, 69, 65, 76>>
TEXT == <<84, 69, 88, 84>>

\* ----------------------------------------------------------------- MsgType
\* The conversion with Desc for every value from 3 on.
MsgType_from_open(t) ==
  CASE t = 1 -> "Str"
    [] t = 2 -> "Entry"
    [] t >= 3 -> "Desc"
    [] OTHER -> "Invalid"

\* MsgType::from(u8)
MsgType_from(t) ==
  CASE t = 1 -> "Str"
    [] t = 2 -> "Entry"
    [] t = 3 -> "Desc"
    [] OTHER -> "Invalid"

\* --------------------------------------------------------------- FieldType
\* FieldType::from(u8): the value is [panic, ft]; any tag but 1..4 panics.
FieldType_from(t) ==
  CASE t = 1 -> [panic |-> FALSE, ft |-> [tag |-> "Int", data |-> U32(0)]]
    [] t = 2 -> [panic |-> FALSE, ft |-> [tag |-> "Float", data |-> [f32 |-> U32(0)]]]
    [] t = 3 -> [panic |-> FALSE, ft |-> [tag |-> "Bool", data |-> [b |-> FALSE]]]
    [] t = 4 -> [panic |-> FALSE, ft |-> [tag |-> "Str", data |-> U32(0)]]
    [] OTHER -> [panic |-> TRUE, ft |-> [tag |-> "Int", data |-> U32(0)]]

\* impl PartialEq for FieldType: the tags are compared, the payload is not.
FieldType_eq(a, b) == a.tag = b.tag

\* ToString with Bool given a column type of its own.
FieldType_to_string_bool(ft) ==
  CASE ft.tag = "Int" -> INTEGER
    [] ft.tag = "Float" -> REAL
    [] ft.tag = "Bool" -> <<66, 79, 79, 76>>
    [] ft.tag = "Str" -> TEXT

\* impl ToString for FieldType
FieldType_to_string(ft) ==
  CASE ft.tag = "Int" -> INTEGER
    [] ft.tag = "Float" -> REAL
    [] ft.tag = "Bool" -> INTEGER
    [] ft.tag = "Str" -> TEXT

\* Option<FieldDescriptor>
None == [some |-> FALSE]
Some(f) == [some |-> TRUE, val |-> f]

\* ------------------------------------------------------------ the BufReader
\* A reader is [buf, wire, closed]: buf is what the BufReader holds, wire is
\* what the socket holds, closed says that the peer has shut the stream down
\* (then a read of the empty socket returns 0 or an error; either way
\* read_exact is Err).  One read of the socket returns at most c bytes, c
\* being chosen by the transport.  A read of an empty open socket blocks.
\*
\* Read::read_exact over BufReader::read takes from the buffer, and refills
\* the empty buffer with one read of the socket, until it has its n bytes.
\* status is "ok", "err" (the stream ended first; the bytes taken are lost
\* with the local array) or "block" (the call is still waiting for the peer).

\* A read that gives up on the first short read instead of looping.
read_once(rd, n, c) ==
  LET filled == IF rd.buf # <<>> \/ rd.wire = <<>> THEN rd
                ELSE LET t == Min(c, Len(rd.wire)) IN
                     [rd EXCEPT !.buf = SubSeq(rd.wire, 1, t),
                                !.wire = SubSeq(rd.wire, t + 1, Len(rd.wire))]
      t == Min(n, Len(filled.buf))
      rest == [filled EXCEPT !.buf = SubSeq(filled.buf, t + 1, Len(filled.buf))]
  IN  IF t = n THEN [status |-> "ok", bytes |-> SubSeq(filled.buf, 1, t), rd |-> rest]
      ELSE IF filled.buf = <<>> /\ ~rd.closed
        THEN [status |-> "block", bytes |-> <<>>, rd |-> rd]
      ELSE [status |-> "err", bytes |-> SubSeq(filled.buf, 1, t), rd |-> rest]

\* The n bytes come from the buffer alone; or from the buffer and as many
\* reads of the socket, of c bytes each (the last one of what is left), as
\* it takes, the unused part of the last read staying in the buffer; or the
\* stream holds fewer than n bytes and all of them are taken before the read
\* that returns 0.
read_exact(rd, n, c) ==
  IF n <= Len(rd.buf)
    THEN [status |-> "ok", bytes |-> SubSeq(rd.buf, 1, n),
          rd |-> [rd EXCEPT !.buf = SubSeq(rd.buf, n + 1, Len(rd.buf))]]
  ELSE IF n <= Len(rd.buf) + Len(rd.wire)
    THEN [status |-> "ok",
          bytes |-> rd.buf \o SubSeq(rd.wire, 1, n - Len(rd.buf)),
          rd |-> [rd EXCEPT
                    !.buf = SubSeq(rd.wire, n - Len(rd.buf) + 1,
                              Min(Len(rd.wire), c * ((n - Len(rd.buf) + c - 1) \div c))),
                    !.wire = SubSeq(rd.wire,
                               Min(Len(rd.wire), c * ((n - Len(rd.buf) + c - 1) \div c)) + 1,
                               Len(rd.wire))]]
  ELSE IF rd.closed
    THEN [status |-> "err", bytes |-> rd.buf \o rd.wire,
          rd |-> [rd EXCEPT !.buf = <<>>, !.wire = <<>>]]
  ELSE [status |-> "block", bytes |-> <<>>, rd |-> rd]

\* The bytes the reader has not handed out yet, in stream order.
unread(rd) == rd.buf \o rd.wire

\* ------------------------------------------------------------ sql_from_raw
\* sql_from_raw reading 4 bytes for every type, Bool included.
sql_from_raw_wide(field, rd, c) ==
  LET r == read_exact(rd, 4, c)
      data == CASE field.data_type.tag = "Int" -> from_le_bytes(r.bytes)
                [] field.data_type.tag = "Float" -> [f32 |-> from_le_bytes(r.bytes)]
                [] field.data_type.tag = "Bool" -> [b |-> r.bytes[1] > 0]
                [] field.data_type.tag = "Str" -> from_le_bytes(r.bytes)
  IN  IF r.status = "ok"
        THEN [status |-> "ok", rd |-> r.rd,
              field |-> [field EXCEPT !.data_type.data = data]]
        ELSE [status |-> r.status, rd |-> r.rd, field |-> field]

\* FieldDescriptor::sql_from_raw: reads the value of one field and stores it
\* in the field's own data_type; the bound parameter is a reference to it.
sql_from_raw(field, rd, c) ==
  LET w == IF field.data_type.tag = "Bool" THEN 1 ELSE 4
      r == read_exact(rd, w, c)
      data == CASE field.data_type.tag = "Int" -> from_le_bytes(r.bytes)
                [] field.data_type.tag = "Float" -> [f32 |-> from_le_bytes(r.bytes)]
                [] field.data_type.tag = "Bool" -> [b |-> r.bytes[1] > 0]
                [] field.data_type.tag = "Str" -> from_le_bytes(r.bytes)
  IN  IF r.status = "ok"
        THEN [status |-> "ok", rd |-> r.rd,
              field |-> [field EXCEPT !.data_type.data = data]]
        ELSE [status |-> r.status, rd |-> r.rd, field |-> field]

\* --------------------------------------------------------- EntryDescriptor
\* EntryDescriptor::make
EntryDescriptor_make ==
  [sql_cmd |-> INSERT_INTO, name |-> U32(0), num_fields |-> 0,
   fields |-> [i \in 0 .. MAX_FIELDS - 1 |-> None]]

\* The first loop of compile, from index i on: the column list.
RECURSIVE compile_columns(_, _, _, _)
compile_columns(desc, strings, i, cmd) ==
  IF i >= desc.num_fields THEN [panic |-> FALSE, cmd |-> cmd]
  ELSE IF i >= MAX_FIELDS \/ ~desc.fields[i].some THEN [panic |-> TRUE, cmd |-> cmd]
  ELSE LET field == desc.fields[i].val IN
       IF ~in_range(strings, field.name) THEN [panic |-> TRUE, cmd |-> cmd]
       ELSE compile_columns(desc, strings, i + 1,
              cmd \o at(strings, field.name)
                  \o (IF i < desc.num_fields - 1 THEN COMMA ELSE CLOSE_PAREN))

\* The second loop of compile running over 1 ..= num_fields.
RECURSIVE compile_placeholders_inclusive(_, _)
compile_placeholders_inclusive(i, num_fields) ==
  IF i > num_fields THEN <<>>
  ELSE QMARK \o fmt_display(i) \o COMMA
         \o compile_placeholders_inclusive(i + 1, num_fields)

\* The second loop of compile: "?i, " for i in 1 .. num_fields - 1.
RECURSIVE compile_placeholders(_, _)
compile_placeholders(i, num_fields) ==
  IF i >= num_fields THEN <<>>
  ELSE QMARK \o fmt_display(i) \o COMMA \o compile_placeholders(i + 1, num_fields)

\* EntryDescriptor::compile: [panic, desc] with desc.sql_cmd completed.
compile(desc, strings) ==
  IF ~in_range(strings, desc.name) THEN [panic |-> TRUE, desc |-> desc]
  ELSE LET cols == compile_columns(desc, strings, 0,
                     desc.sql_cmd \o at(strings, desc.name) \o OPEN_PAREN)
       IN  IF cols.panic THEN [panic |-> TRUE, desc |-> desc]
           ELSE [panic |-> FALSE,
                 desc |-> [desc EXCEPT !.sql_cmd =
                    cols.cmd \o VALUES
                      \o compile_placeholders(1, desc.num_fields)
                      \o QMARK \o fmt_display(desc.num_fields) \o CLOSE_PAREN]]

\* push_param of make_create_cmd
push_param(cmd, field, strings) ==
  cmd \o at(strings, field.name) \o SPACE \o FieldType_to_string(field.data_type)

\* The loop of make_create_cmd over 0 .. num_fields - 2, from index i on.
RECURSIVE create_columns(_, _, _, _)
create_columns(desc, strings, i, cmd) ==
  IF i >= desc.num_fields - 1 THEN [panic |-> FALSE, cmd |-> cmd]
  ELSE IF i >= MAX_FIELDS \/ ~desc.fields[i].some THEN [panic |-> TRUE, cmd |-> cmd]
  ELSE IF ~in_range(strings, desc.fields[i].val.name) THEN [panic |-> TRUE, cmd |-> cmd]
  ELSE create_columns(desc, strings, i + 1,
         push_param(cmd, desc.fields[i].val, strings) \o COMMA)

\* make_create_cmd that answers a descriptor without fields with an empty
\* column list.
make_create_cmd_empty(desc, strings) ==
  IF ~in_range(strings, desc.name) THEN [panic |-> TRUE, cmd |-> <<>>]
  ELSE IF desc.num_fields = 0
    THEN [panic |-> FALSE,
          cmd |-> CREATE_TABLE \o at(strings, desc.name) \o OPEN_PAREN \o CLOSE_PAREN]
  ELSE LET cols == create_columns(desc, strings, 0,
                     CREATE_TABLE \o at(strings, desc.name) \o OPEN_PAREN)
           last == desc.num_fields - 1
       IN  IF cols.panic THEN [panic |-> TRUE, cmd |-> <<>>]
           ELSE IF last >= MAX_FIELDS \/ ~desc.fields[last].some
             THEN [panic |-> TRUE, cmd |-> <<>>]
           ELSE IF ~in_range(strings, desc.fields[last].val.name)
             THEN [panic |-> TRUE, cmd |-> <<>>]
           ELSE [panic |-> FALSE,
                 cmd |-> push_param(cols.cmd, desc.fields[last].val, strings)
                           \o CLOSE_PAREN]

\* EntryDescriptor::make_create_cmd: [panic, cmd].  With num_fields = 0 the
\* subtraction num_fields - 1 overflows (a panic in a checked build; in an
\* unchecked build the loop starts and fields[0].unwrap() panics on None).
make_create_cmd(desc, strings) ==
  IF ~in_range(strings, desc.name) THEN [panic |-> TRUE, cmd |-> <<>>]
  ELSE IF desc.num_fields = 0 THEN [panic |-> TRUE, cmd |-> <<>>]
  ELSE LET cols == create_columns(desc, strings, 0,
                     CREATE_TABLE \o at(strings, desc.name) \o OPEN_PAREN)
           last == desc.num_fields - 1
       IN  IF cols.panic THEN [panic |-> TRUE, cmd |-> <<>>]
           ELSE IF last >= MAX_FIELDS \/ ~desc.fields[last].some
             THEN [panic |-> TRUE, cmd |-> <<>>]
           ELSE IF ~in_range(strings, desc.fields[last].val.name)
             THEN [panic |-> TRUE, cmd |-> <<>>]
           ELSE [panic |-> FALSE,
                 cmd |-> push_param(cols.cmd, desc.fields[last].val, strings)
                           \o CLOSE_PAREN]

\* --------------------------------------------------------- read_descriptor
\* The field loop of Daemon::read_descriptor, from index i on.
RECURSIVE read_fields(_, _, _, _, _)
read_fields(desc, i, n, rd, c) ==
  IF i >= n THEN [status |-> "ok", desc |-> desc, rd |-> rd]
  ELSE LET r1 == read_exact(rd, 1, c)
           r2 == read_exact(r1.rd, 4, c)
       IN  IF r1.status # "ok" THEN [status |-> r1.status, desc |-> desc, rd |-> r1.rd]
           ELSE IF r2.status # "ok" THEN [status |-> r2.status, desc |-> desc, rd |-> r2.rd]
           ELSE LET ft == FieldType_from(r1.bytes[1]) IN
                IF ft.panic \/ i >= MAX_FIELDS
                  THEN [status |-> "panic", desc |-> desc, rd |-> r2.rd]
                ELSE read_fields(
                       [desc EXCEPT !.fields[i] =
                          Some([data_type |-> ft.ft, name |-> from_le_bytes(r2.bytes)])],
                       i + 1, n, r2.rd, c)

\* Daemon::read_descriptor: id (4 bytes), name (4 bytes), field count (1 byte),
\* then per field a tag (1 byte) and a name id (4 bytes).
\* status is "ok", "err" (Error::ReadFailure), "panic" or "block".
read_descriptor(rd, c) ==
  LET r1 == read_exact(rd, 4, c)
      r2 == read_exact(r1.rd, 4, c)
      r3 == read_exact(r2.rd, 1, c)
      none == [status |-> "err", desc |-> EntryDescriptor_make, uid |-> U32(0), rd |-> rd]
  IN  IF r1.status # "ok" THEN [none EXCEPT !.status = r1.status, !.rd = r1.rd]
      ELSE IF r2.status # "ok" THEN [none EXCEPT !.status = r2.status, !.rd = r2.rd]
      ELSE IF r3.status # "ok" THEN [none EXCEPT !.status = r3.status, !.rd = r3.rd]
      ELSE LET desc == [EntryDescriptor_make EXCEPT
                          !.num_fields = r3.bytes[1],
                          !.name = from_le_bytes(r2.bytes)]
               f == read_fields(desc, 0, r3.bytes[1], r3.rd, c)
           IN  [status |-> f.status, desc |-> f.desc,
                uid |-> from_le_bytes(r1.bytes), rd |-> f.rd]

\* ------------------------------------------------------------------- UTF-8
cont(b) == b >= 128 /\ b <= 191

\* String::from_utf8 accepts exactly the well-formed UTF-8 sequences: no
\* overlong forms, no surrogates, nothing above U+10FFFF, no truncated tail.
RECURSIVE utf8_valid(_)
utf8_valid(b) ==
  IF b = <<>> THEN TRUE
  ELSE LET h == b[1]
           n == Len(b)
       IN  IF h < 128 THEN utf8_valid(Tail(b))
           ELSE IF h >= 194 /\ h <= 223
             THEN n >= 2 /\ cont(b[2]) /\ utf8_valid(SubSeq(b, 3, n))
           ELSE IF h >= 224 /\ h <= 239
             THEN /\ n >= 3
                  /\ cont(b[2]) /\ cont(b[3])
                  /\ (h = 224 => b[2] >= 160)
                  /\ (h = 237 => b[2] <= 159)
                  /\ utf8_valid(SubSeq(b, 4, n))
           ELSE IF h >= 240 /\ h <= 244
             THEN /\ n >= 4
                  /\ cont(b[2]) /\ cont(b[3]) /\ cont(b[4])
                  /\ (h = 240 => b[2] >= 144)
                  /\ (h = 244 => b[2] <= 143)
                  /\ utf8_valid(SubSeq(b, 5, n))
           ELSE FALSE

\* ------------------------------------------------------------ the registry
\* register_descriptor without the check of the uid.
register_descriptor_unchecked(desc, uid, register) ==
  [ok |-> TRUE, register |-> Append(register, desc)]

\* Daemon::register_descriptor: [ok, register].
register_descriptor(desc, uid, register) ==
  IF ~usize_eq(uid, Len(register))
    THEN [ok |-> FALSE, register |-> register]
    ELSE [ok |-> TRUE, register |-> Append(register, desc)]

\* Daemon::find_descriptor: status is "ok" (index is the 0-based position of
\* the descriptor found), "space" (Error::Space), "fatal", "panic" (the index
\* register[uid] is out of bounds) or "block".
find_descriptor(rd, register, c) ==
  LET r == read_exact(rd, 4, c)
      uid == from_le_bytes(r.bytes)
  IN  IF r.status = "block" THEN [status |-> "block", index |-> 0, rd |-> r.rd]
      ELSE IF r.status = "err" THEN [status |-> "space", index |-> 0, rd |-> r.rd]
      ELSE IF usize_lt(Len(register), uid)
        THEN [status |-> "fatal", index |-> 0, rd |-> r.rd]
      ELSE IF ~in_range(register, uid)
        THEN [status |-> "panic", index |-> 0, rd |-> r.rd]
      ELSE [status |-> "ok", index |-> uid.lo, rd |-> r.rd]

\* ------------------------------------------------------------- the session
VARIABLES
  state,        \* run: the local `state`
  outcome,      \* "running", or how run ended: "Fatal: ..." (Err returned), "panic"
  strings,      \* Protocol::strings
  descriptors,  \* Protocol::descriptors
  ops,          \* the statements issued to Protocol::con, in order
  buf,          \* the bytes held by the BufReader
  wire,         \* the bytes held by the socket, not yet read
  closed,       \* the peer has closed the stream
  event,        \* the branch the last iteration of the loop of run took
  pending,      \* producer: the bytes of the current frame not yet sent
  nframes,      \* producer: the number of frames sent
  input,        \* codec: the input under test
  phase,        \* codec: the function applied last
  output        \* codec: its result

session == <<state, outcome, strings, descriptors, ops, buf, wire, closed, event>>
producer == <<pending, nframes>>
codec == <<input, phase, output>>
vars == <<state, outcome, strings, descriptors, ops, buf, wire, closed, event,
          pending, nframes, input, phase, output>>

FATAL_UNEXPECTED_UID == "Fatal: Unexpected UID"
FATAL_UID_NOT_FOUND == "Fatal: Uid not found among the descriptors"

\* The session as one record, and the reader in it.
cur ==
  [state |-> state, outcome |-> outcome, strings |-> strings,
   descriptors |-> descriptors, ops |-> ops,
   rd |-> [buf |-> buf, wire |-> wire, closed |-> closed],
   event |-> event, status |-> "ok"]

blocked(m, rd) == [m EXCEPT !.status = "block", !.rd = rd]

\* run, State::HeaderParsing: one iteration of the loop.
HeaderParsing_step(m, c) ==
  LET r1 == read_exact(m.rd, 4, c)
      r2 == read_exact(r1.rd, 1, c)
  IN  IF r1.status = "block" THEN blocked(m, r1.rd)
      ELSE IF r1.status = "err"
        THEN [m EXCEPT !.rd = r1.rd, !.event = "header read failed"]
      ELSE IF r2.status = "block" THEN blocked(m, r2.rd)
      ELSE IF r2.status = "err"
        THEN [m EXCEPT !.rd = r2.rd, !.event = "header read failed"]
      ELSE IF from_le_bytes(r1.bytes) # PROTOCOL
        THEN [m EXCEPT !.rd = r2.rd, !.event = "not a protocol header"]
      ELSE [m EXCEPT !.rd = r2.rd, !.event = "header",
                     !.state = CASE MsgType_from(r2.bytes[1]) = "Desc" -> "DescParsing"
                                 [] MsgType_from(r2.bytes[1]) = "Entry" -> "EntryParsing"
                                 [] MsgType_from(r2.bytes[1]) = "Str" -> "StringParsing"
                                 [] OTHER -> "HeaderParsing"]

\* DescParsing with the statement executed ahead of register_descriptor.
DescParsing_step_create_first(m, c) ==
  LET d == read_descriptor(m.rd, c)
      comp == compile(d.desc, m.strings)
      create == make_create_cmd(comp.desc, m.strings)
      reg == register_descriptor(comp.desc, d.uid, m.descriptors)
      issued == Append(m.ops, [cmd |-> create.cmd, params |-> <<>>])
  IN  IF d.status = "block" THEN blocked(m, d.rd)
      ELSE IF d.status = "panic"
        THEN [m EXCEPT !.rd = d.rd, !.outcome = "panic", !.event = "panic: field"]
      ELSE IF d.status = "err"
        THEN [m EXCEPT !.rd = d.rd, !.state = "HeaderParsing",
                       !.event = "descriptor read failure"]
      ELSE IF comp.panic
        THEN [m EXCEPT !.rd = d.rd, !.outcome = "panic", !.event = "panic: compile"]
      ELSE IF create.panic
        THEN [m EXCEPT !.rd = d.rd, !.outcome = "panic", !.event = "panic: create"]
      ELSE IF ~reg.ok
        THEN [m EXCEPT !.rd = d.rd, !.ops = issued, !.outcome = FATAL_UNEXPECTED_UID,
                       !.event = "unexpected uid"]
      ELSE [m EXCEPT !.rd = d.rd, !.descriptors = reg.register, !.ops = issued,
                     !.state = "HeaderParsing", !.event = "descriptor registered"]

\* run, State::DescParsing.
DescParsing_step(m, c) ==
  LET d == read_descriptor(m.rd, c)
      comp == compile(d.desc, m.strings)
      create == make_create_cmd(comp.desc, m.strings)
      reg == register_descriptor(comp.desc, d.uid, m.descriptors)
  IN  IF d.status = "block" THEN blocked(m, d.rd)
      ELSE IF d.status = "panic"
        THEN [m EXCEPT !.rd = d.rd, !.outcome = "panic", !.event = "panic: field"]
      ELSE IF d.status = "err"
        THEN [m EXCEPT !.rd = d.rd, !.state = "HeaderParsing",
                       !.event = "descriptor read failure"]
      ELSE IF comp.panic
        THEN [m EXCEPT !.rd = d.rd, !.outcome = "panic", !.event = "panic: compile"]
      ELSE IF create.panic
        THEN [m EXCEPT !.rd = d.rd, !.outcome = "panic", !.event = "panic: create"]
      ELSE IF ~reg.ok
        THEN [m EXCEPT !.rd = d.rd, !.outcome = FATAL_UNEXPECTED_UID,
                       !.event = "unexpected uid"]
      ELSE [m EXCEPT !.rd = d.rd, !.descriptors = reg.register,
                     !.ops = Append(m.ops, [cmd |-> create.cmd, params |-> <<>>]),
                     !.state = "HeaderParsing", !.event = "descriptor registered"]

\* The field loop without the `failed` flag: a failed read only ends it.
RECURSIVE entry_fields_unflagged(_, _, _, _, _)
entry_fields_unflagged(desc, i, params, rd, c) ==
  IF i >= MAX_FIELDS \/ ~desc.fields[i].some
    THEN [status |-> "ok", desc |-> desc, params |-> params, rd |-> rd]
  ELSE LET r == sql_from_raw(desc.fields[i].val, rd, c) IN
       IF r.status = "block"
         THEN [status |-> "block", desc |-> desc, params |-> params, rd |-> r.rd]
       ELSE IF r.status # "ok"
         THEN [status |-> "ok", desc |-> desc, params |-> params, rd |-> r.rd]
       ELSE entry_fields_unflagged([desc EXCEPT !.fields[i] = Some(r.field)], i + 1,
                                   Append(params, r.field.data_type), r.rd, c)

\* The field loop of State::EntryParsing, from slot i on: every populated
\* slot decodes its value into the descriptor and binds it; the loop breaks
\* at the first empty slot or at the first failed read.
RECURSIVE entry_fields(_, _, _, _, _)
entry_fields(desc, i, params, rd, c) ==
  IF i >= MAX_FIELDS \/ ~desc.fields[i].some
    THEN [status |-> "ok", desc |-> desc, params |-> params, rd |-> rd]
  ELSE LET r == sql_from_raw(desc.fields[i].val, rd, c) IN
       IF r.status # "ok"
         THEN [status |-> r.status, desc |-> desc, params |-> params, rd |-> r.rd]
       ELSE entry_fields([desc EXCEPT !.fields[i] = Some(r.field)], i + 1,
                         Append(params, r.field.data_type), r.rd, c)

\* run, State::EntryParsing.
EntryParsing_step(m, c) ==
  LET f == find_descriptor(m.rd, m.descriptors, c)
      e == entry_fields(m.descriptors[f.index + 1], 0, <<>>, f.rd, c)
  IN  IF f.status = "block" THEN blocked(m, f.rd)
      ELSE IF f.status = "space"
        THEN [m EXCEPT !.rd = f.rd, !.state = "HeaderParsing",
                       !.event = "not enough data"]
      ELSE IF f.status = "fatal"
        THEN [m EXCEPT !.rd = f.rd, !.outcome = FATAL_UID_NOT_FOUND,
                       !.event = "uid not found"]
      ELSE IF f.status = "panic"
        THEN [m EXCEPT !.rd = f.rd, !.outcome = "panic", !.event = "panic: index"]
      ELSE IF e.status = "block" THEN blocked(m, e.rd)
      ELSE IF e.status = "err"
        THEN [m EXCEPT !.rd = e.rd, !.state = "HeaderParsing",
                       !.descriptors[f.index + 1] = e.desc,
                       !.event = "sql_from_raw failed"]
      ELSE [m EXCEPT !.rd = e.rd, !.state = "HeaderParsing",
                     !.descriptors[f.index + 1] = e.desc,
                     !.ops = Append(m.ops, [cmd |-> e.desc.sql_cmd, params |-> e.params]),
                     !.event = "entry inserted"]

\* The read of a buffer one byte shorter than the size.
read_exact_sized_short(rd, size, c) ==
  IF size.hi = 0 THEN read_exact(rd, IF size.lo = 0 THEN 0 ELSE size.lo - 1, c)
  ELSE IF rd.closed
    THEN [status |-> "err", bytes |-> <<>>, rd |-> [rd EXCEPT !.buf = <<>>, !.wire = <<>>]]
  ELSE [status |-> "block", bytes |-> <<>>, rd |-> rd]

\* read_exact of a buffer of `size as usize` bytes.  A size of 2^16 or more
\* is beyond every stream of this model: the read ends when the stream does.
read_exact_sized(rd, size, c) ==
  IF size.hi = 0 THEN read_exact(rd, size.lo, c)
  ELSE IF rd.closed
    THEN [status |-> "err", bytes |-> <<>>, rd |-> [rd EXCEPT !.buf = <<>>, !.wire = <<>>]]
  ELSE [status |-> "block", bytes |-> <<>>, rd |-> rd]

\* run, State::StringParsing.
StringParsing_step(m, c) ==
  LET r1 == read_exact(m.rd, 4, c)
      r2 == read_exact(r1.rd, 4, c)
      uid == from_le_bytes(r1.bytes)
      r3 == read_exact_sized(r2.rd, from_le_bytes(r2.bytes), c)
  IN  IF r1.status = "block" THEN blocked(m, r1.rd)
      ELSE IF r1.status = "err"
        THEN [m EXCEPT !.rd = r1.rd, !.state = "HeaderParsing",
                       !.event = "string metadata read failed"]
      ELSE IF r2.status = "block" THEN blocked(m, r2.rd)
      ELSE IF r2.status = "err"
        THEN [m EXCEPT !.rd = r2.rd, !.state = "HeaderParsing",
                       !.event = "string metadata read failed"]
      ELSE IF ~usize_eq(uid, Len(m.strings))
        THEN [m EXCEPT !.rd = r2.rd, !.state = "HeaderParsing",
                       !.event = "string uid does not match"]
      ELSE IF r3.status = "block" THEN blocked(m, r3.rd)
      ELSE IF r3.status = "err"
        THEN [m EXCEPT !.rd = r3.rd, !.state = "HeaderParsing",
                       !.event = "failed reading string data"]
      ELSE IF ~utf8_valid(r3.bytes)
        THEN [m EXCEPT !.rd = r3.rd, !.state = "HeaderParsing",
                       !.event = "invalid utf8"]
      ELSE [m EXCEPT !.rd = r3.rd, !.state = "HeaderParsing",
                     !.strings = Append(m.strings, r3.bytes),
                     !.event = "string interned"]

\* One iteration of the loop of run: match state { ... }.
run_step(m, c) ==
  CASE m.state = "HeaderParsing" -> HeaderParsing_step(m, c)
    [] m.state = "DescParsing" -> DescParsing_step(m, c)
    [] m.state = "EntryParsing" -> EntryParsing_step(m, c)
    [] m.state = "StringParsing" -> StringParsing_step(m, c)

\* ------------------------------------------------------------ the producer
\* The frames as the reader of this program expects them on the wire.
Header(t) == to_le_bytes(PROTOCOL) \o <<t>>

StrFrame(uid, text) ==
  Header(1) \o to_le_bytes(U32(uid)) \o to_le_bytes(U32(Len(text))) \o text

RECURSIVE FieldRecords(_)
FieldRecords(fs) ==
  IF fs = <<>> THEN <<>>
  ELSE <<Head(fs)[1]>> \o to_le_bytes(U32(Head(fs)[2])) \o FieldRecords(Tail(fs))

\* The payload read_descriptor reads: id, name, field count, field records.
DescPayload(uid, name, fs) ==
  to_le_bytes(U32(uid)) \o to_le_bytes(U32(name)) \o <<Len(fs)>> \o FieldRecords(fs)

DescFrame(uid, name, fs) == Header(3) \o DescPayload(uid, name, fs)

EntryFrame(uid, payload) == Header(2) \o to_le_bytes(U32(uid)) \o payload

\* What the producer of this model may send: the strings "a" and "b" and a
\* text that is not UTF-8; descriptors of table "a" with columns "a" of all
\* four types, for uids 0 and 1; a descriptor with an unknown tag, one
\* without fields and one of 33 fields; entries for uids 0..2 (42; true and
\* 1.0; string 7 and true); two frames of unknown types and a stray byte.
Frames ==
  { StrFrame(0, <<97>>), StrFrame(1, <<98>>), StrFrame(0, <<255>>),
    DescFrame(0, 0, << <<1, 0>> >>),
    DescFrame(0, 0, << <<3, 0>>, <<2, 0>> >>),
    DescFrame(1, 0, << <<4, 0>>, <<3, 0>> >>),
    DescFrame(0, 0, << <<9, 0>> >>),
    DescFrame(0, 0, <<>>),
    DescFrame(0, 0, [i \in 1 .. MAX_FIELDS + 1 |-> <<1, 0>>]),
    EntryFrame(0, <<42, 0, 0, 0>>),
    EntryFrame(0, <<1, 0, 0, 128, 63>>),
    EntryFrame(1, <<7, 0, 0, 0, 2>>),
    EntryFrame(2, <<>>),
    Header(0),
    Header(4),
    <<0>> }

\* BufReader::new: the buffer holds DEFAULT_BUF_SIZE bytes, so one read of
\* the socket returns between 1 and that many bytes.
DEFAULT_BUF_SIZE == 8192
ReadSizes == {1, 3, DEFAULT_BUF_SIZE}

\* ------------------------------------------------------------------ actions
NoInput == [kind |-> "none"]

Init ==
  /\ state = "HeaderParsing"
  /\ outcome = "running"
  /\ strings = <<>>
  /\ descriptors = <<>>
  /\ ops = <<>>
  /\ buf = <<>>
  /\ wire = <<>>
  /\ closed = FALSE
  /\ event = "start"
  /\ pending = <<>>
  /\ nframes = 0
  /\ input = NoInput
  /\ phase = "idle"
  /\ output = NoInput

\* The variables after the iteration whose result is m.
Apply(m) ==
  /\ state' = m.state
  /\ outcome' = m.outcome
  /\ strings' = m.strings
  /\ descriptors' = m.descriptors
  /\ ops' = m.ops
  /\ buf' = m.rd.buf
  /\ wire' = m.rd.wire
  /\ closed' = m.rd.closed
  /\ event' = m.event
  /\ UNCHANGED <<producer, codec>>

\* An iteration runs once its reads can complete: read_exact on the blocking
\* socket returns only when it has its bytes or the stream has ended.
HeaderParsing ==
  /\ outcome = "running" /\ state = "HeaderParsing"
  /\ \E c \in ReadSizes :
       LET m == HeaderParsing_step(cur, c) IN m.status # "block" /\ Apply(m)

DescParsing ==
  /\ outcome = "running" /\ state = "DescParsing"
  /\ \E c \in ReadSizes :
       LET m == DescParsing_step(cur, c) IN m.status # "block" /\ Apply(m)

EntryParsing ==
  /\ outcome = "running" /\ state = "EntryParsing"
  /\ \E c \in ReadSizes :
       LET m == EntryParsing_step(cur, c) IN m.status # "block" /\ Apply(m)

StringParsing ==
  /\ outcome = "running" /\ state = "StringParsing"
  /\ \E c \in ReadSizes :
       LET m == StringParsing_step(cur, c) IN m.status # "block" /\ Apply(m)

Decoder == HeaderParsing \/ DescParsing \/ EntryParsing \/ StringParsing

\* Where the network may cut a frame in two: inside the uid, and one byte
\* after it.
Cuts == {7, 10}

\* The producer sends a frame; the network delivers it whole, or only its
\* first bytes for now.
ProduceUpTo(limit) ==
  /\ outcome = "running" /\ ~closed
  /\ pending = <<>> /\ nframes < limit
  /\ Len(buf) + Len(wire) <= MaxBacklog
  /\ \E f \in Frames : \E n \in {Len(f)} \cup {k \in Cuts : k < Len(f)} :
       /\ wire' = wire \o SubSeq(f, 1, n)
       /\ pending' = SubSeq(f, n + 1, Len(f))
  /\ nframes' = nframes + 1
  /\ UNCHANGED <<state, outcome, strings, descriptors, ops, buf, closed, event,
                 codec>>

Produce == ProduceUpTo(MaxFrames)

\* The network delivers the rest of the frame.
Deliver ==
  /\ outcome = "running" /\ ~closed
  /\ pending # <<>>
  /\ wire' = wire \o pending
  /\ pending' = <<>>
  /\ UNCHANGED <<state, outcome, strings, descriptors, ops, buf, closed, event,
                 nframes, codec>>

\* The producer closes the stream; what it had not sent is never sent.
Close ==
  /\ outcome = "running" /\ ~closed
  /\ closed' = TRUE
  /\ pending' = <<>>
  /\ UNCHANGED <<state, outcome, strings, descriptors, ops, buf, wire, event,
                 nframes, codec>>

Next == HeaderParsing \/ DescParsing \/ EntryParsing \/ StringParsing
          \/ Produce \/ Deliver \/ Close

Spec == Init /\ [][Next]_vars

\* The session with a producer that closes the stream after a frame or two,
\* and with the loop of run as a running thread: an iteration that can run
\* does run.
ShortProduce == ProduceUpTo(MaxShortFrames)

ShortNext == HeaderParsing \/ DescParsing \/ EntryParsing \/ StringParsing
               \/ ShortProduce \/ Deliver \/ Close

FairSpec == Init /\ [][ShortNext]_vars /\ WF_vars(HeaderParsing)

\* ---------------------------------------------------------------- the codec
\* A second specification applies the functions that turn a descriptor
\* payload into statements (read_descriptor, compile, make_create_cmd, in
\* the order State::DescParsing calls them) to inputs of up to MaxK fields.

\* The string table of the codec's inputs: "a" .. "g", then the two names
\* of the documented scenario at ids 7 and 8.
CodecStrings ==
  << <<97>>, <<98>>, <<99>>, <<100>>, <<101>>, <<102>>, <<103>>,
     <<116, 101, 109, 112, 101, 114, 97, 116, 117, 114, 101>>,
     <<115, 101, 110, 115, 111, 114, 115>> >>

\* k fields <<tag, name id>>: the tags cycle through 1..4 from r on, the
\* name ids run over 0..6.
GenFields(k, r) == [i \in 1 .. k |-> <<((i + r) % 4) + 1, (3 * i + r) % 7>>]

\* The payload as tests::read_proto lays it out: id, field count, records.
TestLayoutPayload(uid, fs) ==
  to_le_bytes(U32(uid)) \o <<Len(fs)>> \o FieldRecords(fs)

ScenarioA ==
  [uid |-> 6, name |-> 8, fields |-> << <<1, 7>> >>, layout |-> "wire"]
ReadProtoTest ==
  [uid |-> 6, name |-> 0, fields |-> << <<1, 7>>, <<2, 8>> >>, layout |-> "test"]

CodecInputs ==
  { [uid |-> r, name |-> nm, fields |-> GenFields(k, r), layout |-> l] :
      k \in 1 .. MaxK, r \in 0 .. 3, nm \in {0, 8}, l \in {"wire", "test"} }
    \cup {ScenarioA, ReadProtoTest}

Payload(in) ==
  IF in.layout = "wire" THEN DescPayload(in.uid, in.name, in.fields)
  ELSE TestLayoutPayload(in.uid, in.fields)

CodecInit ==
  /\ state = "HeaderParsing"
  /\ outcome = "running"
  /\ strings = CodecStrings
  /\ descriptors = <<>>
  /\ ops = <<>>
  /\ buf = <<>>
  /\ wire = <<>>
  /\ closed = TRUE
  /\ event = "start"
  /\ pending = <<>>
  /\ nframes = 0
  /\ input \in CodecInputs
  /\ phase = "input"
  /\ output = NoInput

\* read_descriptor on a reader that holds exactly the payload.
CodecRead ==
  /\ phase = "input"
  /\ \E c \in ReadSizes :
       LET d == read_descriptor(
                  [buf |-> <<>>, wire |-> Payload(input), closed |-> TRUE], c)
       IN  output' = [status |-> d.status, desc |-> d.desc, uid |-> d.uid,
                      left |-> unread(d.rd)]
  /\ phase' = "read"
  /\ UNCHANGED <<session, producer, input>>

\* desc.compile(&strings)
CodecCompile ==
  /\ phase = "read" /\ output.status = "ok"
  /\ LET r == compile(output.desc, strings)
     IN  output' = [panic |-> r.panic, desc |-> r.desc, uid |-> output.uid]
  /\ phase' = "compiled"
  /\ UNCHANGED <<session, producer, input>>

\* desc.make_create_cmd(&strings)
CodecCreate ==
  /\ phase = "compiled" /\ ~output.panic
  /\ LET r == make_create_cmd(output.desc, strings)
     IN  output' = [panic |-> r.panic, desc |-> output.desc, cmd |-> r.cmd,
                    uid |-> output.uid]
  /\ phase' = "created"
  /\ UNCHANGED <<session, producer, input>>

CodecNext == CodecRead \/ CodecCompile \/ CodecCreate

CodecSpec == CodecInit /\ [][CodecNext]_vars

\* ------------------------------------------------------------- properties
\* The unread bytes of the session, and the u32 found at an offset in them.
Unread == buf \o wire
PeekU32(off) == from_le_bytes(SubSeq(Unread, off + 1, off + 4))

\* C1: when DescParsing reaches register_descriptor, a uid different from
\* the length of the registry ends run with the fatal error "Unexpected
\* UID" and leaves the registry as it was; a uid equal to the length appends
\* exactly the descriptor of that frame at index uid and changes nothing
\* below it.
C1_RegisterDescriptor ==
  [][ (DescParsing /\ event' \in {"unexpected uid", "descriptor registered"}) =>
        LET uid == PeekU32(0)
            n == Len(descriptors)
        IN  IF ~usize_eq(uid, n)
              THEN /\ outcome' = FATAL_UNEXPECTED_UID
                   /\ descriptors' = descriptors
              ELSE /\ outcome' = "running"
                   /\ Len(descriptors') = n + 1
                   /\ SubSeq(descriptors', 1, n) = descriptors
                   /\ descriptors'[uid.lo + 1].name = PeekU32(4)
                   /\ descriptors'[uid.lo + 1].num_fields = Unread[9] ]_vars

\* Scenario C: uid 1 was refused by an empty registry, which stayed empty.
C1_Witness ==
  /\ outcome = FATAL_UNEXPECTED_UID
  /\ event = "unexpected uid"
  /\ descriptors = <<>>

\* C2: an Entry frame whose uid is not below the length of the registry
\* (equal to it included) ends run with the fatal error "Uid not found",
\* decodes nothing and issues no insert.
C2_UnknownDescriptorIsFatal ==
  [][ (EntryParsing /\ Len(Unread) >= 4 /\ ~in_range(descriptors, PeekU32(0))) =>
        /\ outcome' = FATAL_UID_NOT_FOUND
        /\ ops' = ops
        /\ descriptors' = descriptors ]_vars

\* C3: a String frame whose uid is not the length of the string table ends
\* run with an error, and the string table is left as it was.
C3_StringUidMismatchIsFatal ==
  [][ (StringParsing /\ Len(Unread) >= 8 /\ ~usize_eq(PeekU32(0), Len(strings))) =>
        /\ outcome' # "running"
        /\ strings' = strings ]_vars

\* C4: every iteration of run leaves the session (state, tables, statements
\* issued, outcome, unread bytes) exactly as the same iteration does when the
\* unread bytes reach it in one piece by one read, however the bytes are split
\* between BufReader and socket and whatever the size of the reads; and what
\* is left unread is a suffix of what was unread, so that no byte is lost or
\* taken twice.
C4_FragmentationInvariance ==
  [][ Decoder =>
        LET whole == [cur EXCEPT !.rd = [buf |-> <<>>, wire |-> Unread,
                                           closed |-> closed]]
            m == run_step(whole, DEFAULT_BUF_SIZE)
        IN  /\ state' = m.state
            /\ outcome' = m.outcome
            /\ strings' = m.strings
            /\ descriptors' = m.descriptors
            /\ ops' = m.ops
            /\ event' = m.event
            /\ buf' \o wire' = unread(m.rd)
            /\ \E n \in 0 .. Len(Unread) :
                 buf' \o wire' = SubSeq(Unread, n + 1, Len(Unread)) ]_vars

\* An entry was inserted by reads that ended inside a delivery: part of it
\* is still in the BufReader while the socket holds more.
C4_Witness ==
  /\ event = "entry inserted"
  /\ buf # <<>>
  /\ wire # <<>>

\* C5: when the 4 bytes at the head of the stream are not the magic,
\* HeaderParsing drops exactly one byte and retries.
C5_ResyncByOneByte ==
  [][ (HeaderParsing /\ Len(Unread) >= 5 /\ PeekU32(0) # PROTOCOL) =>
        /\ buf' \o wire' = Tail(Unread)
        /\ state' = "HeaderParsing" ]_vars

\* C6: once HeaderParsing finds the stream closed (its read returns no
\* byte), run eventually ends.
C6_CloseTerminates ==
  (closed /\ state = "HeaderParsing" /\ buf = <<>> /\ wire = <<>>)
    ~> (outcome # "running")

\* ---- codec
RECURSIVE Join(_, _)
Join(parts, sep) ==
  IF parts = <<>> THEN <<>>
  ELSE IF Len(parts) = 1 THEN parts[1]
  ELSE parts[1] \o sep \o Join(Tail(parts), sep)

Count(text, byte) == Cardinality({i \in DOMAIN text : text[i] = byte})

NameOf(id) == CodecStrings[id + 1]

SqlTypeOfTag(t) ==
  CASE t = 1 -> <<73, 78, 84, 69, 71, 69, 82>>
    [] t = 2 -> <<82, 69, 65, 76>>
    [] t = 3 -> <<73, 78, 84, 69, 71, 69, 82>>
    [] t = 4 -> <<84, 69, 88, 84>>

TagName(t) ==
  CASE t = 1 -> "Int" [] t = 2 -> "Float" [] t = 3 -> "Bool" [] t = 4 -> "Str"

\* "INSERT INTO <table> (<c1>, ..., <ck>) VALUES (?1, ..., ?k)"
InsertText(in) ==
  LET k == Len(in.fields) IN
  INSERT_INTO \o NameOf(in.name) \o <<32, 40>>
    \o Join([i \in 1 .. k |-> NameOf(in.fields[i][2])], <<44, 32>>)
    \o <<41>> \o <<32, 86, 65, 76, 85, 69, 83, 32, 40>>
    \o Join([i \in 1 .. k |-> <<63>> \o fmt_display(i)], <<44, 32>>)
    \o <<41>>

\* "CREATE TABLE <table> (<c1> <type1>, ..., <ck> <typek>)"
CreateText(in) ==
  LET k == Len(in.fields) IN
  CREATE_TABLE \o NameOf(in.name) \o <<32, 40>>
    \o Join([i \in 1 .. k |->
               NameOf(in.fields[i][2]) \o <<32>> \o SqlTypeOfTag(in.fields[i][1])],
            <<44, 32>>)
    \o <<41>>

\* "CREATE TABLE sensors (temperature INTEGER)"
ScenarioA_DDL ==
  <<67, 82, 69, 65, 84, 69, 32, 84, 65, 66, 76, 69, 32, 115, 101, 110, 115,
    111, 114, 115, 32, 40, 116, 101, 109, 112, 101, 114, 97, 116, 117, 114,
    101, 32, 73, 78, 84, 69, 71, 69, 82, 41>>

\* C7: for a descriptor of k fields, 1 <= k <= 32, compile yields the insert
\* statement naming the resolved table, the k resolved column names in field
\* order and the k placeholders ?1 .. ?k in increasing order, k = 1 included.
C7_CompilePlaceholders ==
  (phase = "compiled" /\ input.layout = "wire"
     /\ Len(input.fields) >= 1 /\ Len(input.fields) <= MAX_FIELDS) =>
    /\ ~output.panic
    /\ output.desc.sql_cmd = InsertText(input)
    /\ Count(output.desc.sql_cmd, 63) = Len(input.fields)

\* compile has run on a descriptor of one field and on one of 32.
C7_Witness ==
  /\ phase = "compiled" /\ input.layout = "wire"
  /\ ~output.panic
  /\ Len(input.fields) = MAX_FIELDS
  /\ Count(output.desc.sql_cmd, 63) = MAX_FIELDS

\* C8: for a descriptor of k fields, 1 <= k <= 32, make_create_cmd yields
\* CREATE TABLE with the resolved table name and, in field order, each
\* resolved column name with INTEGER for Int and Bool, REAL for Float, TEXT
\* for Str; scenario A yields "CREATE TABLE sensors (temperature INTEGER)".
C8_CreateCmd ==
  (phase = "created" /\ input.layout = "wire"
     /\ Len(input.fields) >= 1 /\ Len(input.fields) <= MAX_FIELDS) =>
    /\ ~output.panic
    /\ output.cmd = CreateText(input)
    /\ (input = ScenarioA => output.cmd = ScenarioA_DDL)

\* make_create_cmd has produced the statement of scenario A.
C8_Witness ==
  /\ phase = "created"
  /\ input = ScenarioA
  /\ output.cmd = ScenarioA_DDL

\* ---- entries
\* The populated fields of a registered descriptor, as a sequence.
FieldsOf(desc) == [i \in 1 .. desc.num_fields |-> desc.fields[i - 1].val]

WidthOf(tag) == IF tag = "Bool" THEN 1 ELSE 4

RECURSIVE PayloadWidth(_)
PayloadWidth(fs) ==
  IF fs = <<>> THEN 0 ELSE WidthOf(Head(fs).data_type.tag) + PayloadWidth(Tail(fs))

\* The value of a field of the given type found at the head of bytes.
ValueAt(tag, bytes) ==
  LET u == [lo |-> bytes[1] + 256 * bytes[2], hi |-> bytes[3] + 256 * bytes[4]] IN
  CASE tag = "Int" -> [tag |-> "Int", data |-> u]
    [] tag = "Float" -> [tag |-> "Float", data |-> [f32 |-> u]]
    [] tag = "Bool" -> [tag |-> "Bool", data |-> [b |-> bytes[1] # 0]]
    [] tag = "Str" -> [tag |-> "Str", data |-> u]

RECURSIVE ValuesOf(_, _)
ValuesOf(fs, bytes) ==
  IF fs = <<>> THEN <<>>
  ELSE <<ValueAt(Head(fs).data_type.tag, bytes)>>
         \o ValuesOf(Tail(fs),
                     SubSeq(bytes, WidthOf(Head(fs).data_type.tag) + 1, Len(bytes)))

\* C9: an Entry frame that names a registered descriptor of k fields and
\* carries its whole payload issues exactly one insert, with the compiled
\* statement of that descriptor and the k values decoded in field order from
\* the bytes after the uid, each of the width of its field's type; the
\* iteration takes exactly 4 + the sum of those widths bytes.
C9_EntryInsert ==
  [][ (/\ EntryParsing
       /\ Len(Unread) >= 4
       /\ in_range(descriptors, PeekU32(0))
       /\ Len(Unread) >= 4 + PayloadWidth(FieldsOf(at(descriptors, PeekU32(0))))) =>
        LET desc == at(descriptors, PeekU32(0))
            fs == FieldsOf(desc)
            w == PayloadWidth(fs)
            values == ValuesOf(fs, SubSeq(Unread, 5, 4 + w))
        IN  /\ Len(values) = desc.num_fields
            /\ ops' = Append(ops, [cmd |-> desc.sql_cmd, params |-> values])
            /\ buf' \o wire' = SubSeq(Unread, 4 + w + 1, Len(Unread))
            /\ outcome' = "running"
            /\ state' = "HeaderParsing" ]_vars

\* An entry of two fields was inserted: a Bool that is true and the Float
\* 1.0 (0x3F800000).
C9_Witness ==
  /\ event = "entry inserted"
  /\ ops # <<>>
  /\ ops[Len(ops)].params =
       << [tag |-> "Bool", data |-> [b |-> TRUE]],
          [tag |-> "Float", data |-> [f32 |-> [lo |-> 0, hi |-> 16256]]] >>

\* C10: for a payload laid out as uid, field count N (1 <= N <= 32), N
\* records of tag and name id, read_descriptor returns that uid and a
\* descriptor of N fields, field i having the type of tag i and name id i.
C10_ReadDescriptorLayout ==
  (phase = "read" /\ input.layout = "test"
     /\ Len(input.fields) >= 1 /\ Len(input.fields) <= MAX_FIELDS) =>
    /\ output.status = "ok"
    /\ output.uid = U32(input.uid)
    /\ output.desc.num_fields = Len(input.fields)
    /\ \A i \in 1 .. Len(input.fields) :
         /\ output.desc.fields[i - 1].some
         /\ output.desc.fields[i - 1].val.data_type.tag = TagName(input.fields[i][1])
         /\ output.desc.fields[i - 1].val.name = U32(input.fields[i][2])

\* ---- descriptor frames
\* The payload of a Descriptor frame at the head of the unread bytes: the
\* field count, the tag and the name id of record i (from 0), and whether
\* the stream holds the whole payload.
DescCount == Unread[9]
DescTagAt(i) == Unread[10 + 5 * i]
DescNameAt(i) == PeekU32(11 + 5 * i)
DescComplete == Len(Unread) >= 9 /\ Len(Unread) >= 9 + 5 * DescCount

\* C11: a Descriptor frame that holds a field tag outside 1..4 is dropped as
\* a decode error: run goes on at HeaderParsing, nothing is registered, no
\* statement is issued and the tables are left as they were.
C11_BadTagIsRecoverable ==
  [][ (/\ DescParsing
       /\ DescComplete
       /\ DescCount <= MAX_FIELDS
       /\ \E i \in 0 .. DescCount - 1 : DescTagAt(i) \notin 1 .. 4) =>
        /\ outcome' = "running"
        /\ state' = "HeaderParsing"
        /\ descriptors' = descriptors
        /\ strings' = strings
        /\ ops' = ops ]_vars

\* ---- the tables
\* C12: a registered descriptor never changes: whatever the step, the
\* registry keeps at every index it had the same name id, field count, field
\* types with their values, field name ids and insert statement; decoding an
\* entry writes nothing into its descriptor.
C12_RegisteredDescriptorsImmutable ==
  [][ \A i \in 1 .. Len(descriptors) :
        /\ i <= Len(descriptors')
        /\ descriptors'[i] = descriptors[i] ]_vars

\* The String frame payload at the head of the unread bytes: its text, and
\* whether the stream holds all of it.
StrSize == PeekU32(4)
StrComplete == Len(Unread) >= 8 /\ StrSize.hi = 0 /\ Len(Unread) >= 8 + StrSize.lo
StrText == SubSeq(Unread, 9, 8 + StrSize.lo)

\* C13: the string table only grows at its end: a step either leaves it as
\* it was, or is the StringParsing step of a whole String frame whose uid is
\* the length of the table and whose text is UTF-8, and appends exactly that
\* text, at index uid.
C13_StringsAppendOnly ==
  [][ \/ strings' = strings
      \/ /\ StringParsing
         /\ StrComplete
         /\ PeekU32(0) = U32(Len(strings))
         /\ utf8_valid(StrText)
         /\ strings' = Append(strings, StrText)
         /\ at(strings', PeekU32(0)) = StrText ]_vars

\* Two strings were interned, "b" last, at index 1.
C13_Witness ==
  /\ event = "string interned"
  /\ strings = << <<97>>, <<98>> >>

\* ---- entries cut short
\* C14: an Entry frame for a registered descriptor of k fields issues its
\* insert only with all k values decoded: when the stream ends after the
\* uid and before the last byte of the k values, the step issues nothing;
\* and a step that issues a statement had the whole payload and binds k
\* values.
C14_EntryAtomic ==
  [][ (/\ EntryParsing
       /\ Len(Unread) >= 4
       /\ in_range(descriptors, PeekU32(0))) =>
        LET desc == at(descriptors, PeekU32(0))
            w == PayloadWidth(FieldsOf(desc))
        IN  /\ Len(Unread) < 4 + w => (closed /\ ops' = ops)
            /\ ops' # ops =>
                 /\ Len(Unread) >= 4 + w
                 /\ Len(ops') = Len(ops) + 1
                 /\ Len(ops'[Len(ops')].params) = desc.num_fields ]_vars

\* The stream ended inside an entry of two fields, after its Bool and
\* before the last byte of its Float: the only statement issued is the
\* CREATE TABLE of the descriptor.
C14_Witness ==
  /\ event = "sql_from_raw failed"
  /\ Len(descriptors) = 1
  /\ descriptors[1].num_fields = 2
  /\ descriptors[1].fields[0].val.data_type.data = [b |-> TRUE]
  /\ Len(ops) = 1

\* ---- frames cut short
\* The state whose frame is at the head of the unread bytes finds fewer
\* bytes than the frame needs: less than the fixed part of the payload, or,
\* for an entry of a registered descriptor and for a string with the
\* expected uid, less than the whole payload.
FrameShort ==
  CASE state = "DescParsing" -> Len(Unread) < 9
    [] state = "EntryParsing" ->
         \/ Len(Unread) < 4
         \/ /\ in_range(descriptors, PeekU32(0))
            /\ Len(Unread) < 4 + PayloadWidth(FieldsOf(at(descriptors, PeekU32(0))))
    [] state = "StringParsing" ->
         \/ Len(Unread) < 8
         \/ usize_eq(PeekU32(0), Len(strings)) /\ ~StrComplete
    [] OTHER -> FALSE

\* C15: an iteration of DescParsing, EntryParsing or StringParsing that
\* finds fewer bytes than its frame needs keeps the state and the bytes of
\* the frame, and run does not end.
C15_ShortFrameStays ==
  [][ (Decoder /\ FrameShort) =>
        /\ state' = state
        /\ buf' \o wire' = Unread
        /\ outcome' = "running" ]_vars

\* ---- headers
\* C16: a header that holds the magic selects the next state by its type
\* byte alone: 1 StringParsing, 2 EntryParsing, 3 DescParsing, every other
\* value HeaderParsing; the iteration takes exactly the 5 bytes of the
\* header, touches neither table and issues no statement.
C16_HeaderDispatch ==
  [][ (HeaderParsing /\ Len(Unread) >= 5 /\ PeekU32(0) = PROTOCOL) =>
        /\ state' = CASE Unread[5] = 1 -> "StringParsing"
                      [] Unread[5] = 2 -> "EntryParsing"
                      [] Unread[5] = 3 -> "DescParsing"
                      [] OTHER -> "HeaderParsing"
        /\ buf' \o wire' = SubSeq(Unread, 6, Len(Unread))
        /\ outcome' = "running"
        /\ strings' = strings
        /\ descriptors' = descriptors
        /\ ops' = ops ]_vars

\* A header of an unknown type was taken with a string and a descriptor
\* registered: run is at HeaderParsing again, the tables as they were.
C16_Witness ==
  /\ event = "header"
  /\ state = "HeaderParsing"
  /\ Len(strings) = 1
  /\ Len(descriptors) = 1

\* ---- strings that are not UTF-8
\* C17: a whole String frame with the expected uid whose text is not UTF-8
\* is dropped: the iteration takes the 8 bytes of uid and size and all the
\* bytes of the text, leaves the string table as it was, and run goes on at
\* HeaderParsing.
C17_InvalidUtf8Discarded ==
  [][ (/\ StringParsing
       /\ StrComplete
       /\ usize_eq(PeekU32(0), Len(strings))
       /\ ~utf8_valid(StrText)) =>
        /\ buf' \o wire' = SubSeq(Unread, 8 + StrSize.lo + 1, Len(Unread))
        /\ strings' = strings
        /\ outcome' = "running"
        /\ state' = "HeaderParsing" ]_vars

\* The text FF was refused as string 0 while the bytes of a second frame
\* wait behind it: the table is empty and run is at HeaderParsing.
C17_Witness ==
  /\ event = "invalid utf8"
  /\ strings = <<>>
  /\ state = "HeaderParsing"
  /\ outcome = "running"
  /\ Len(Unread) >= 5
  /\ PeekU32(0) = PROTOCOL

\* ---- names that are not in the string table
\* C18: a whole Descriptor frame with valid tags whose table name id, or
\* one of whose field name ids, is not below the length of the string table
\* ends run with a fatal error value, not with a panic: nothing is
\* registered and no statement is issued.
C18_UnresolvedNameIsFatal ==
  [][ (/\ DescParsing
       /\ DescComplete
       /\ DescCount >= 1 /\ DescCount <= MAX_FIELDS
       /\ \A i \in 0 .. DescCount - 1 : DescTagAt(i) \in 1 .. 4
       /\ \/ ~in_range(strings, PeekU32(4))
          \/ \E i \in 0 .. DescCount - 1 : ~in_range(strings, DescNameAt(i))) =>
        /\ outcome' \notin {"running", "panic"}
        /\ descriptors' = descriptors
        /\ ops' = ops ]_vars

\* ---- CREATE TABLE and the registry
\* The CREATE TABLE statements among those issued, in the order of issue.
IsCreate(op) ==
  Len(op.cmd) >= Len(CREATE_TABLE) /\ SubSeq(op.cmd, 1, Len(CREATE_TABLE)) = CREATE_TABLE
Creates == SelectSeq(ops, IsCreate)

SqlTypeOf(tag) ==
  CASE tag = "Int" -> <<73, 78, 84, 69, 71, 69, 82>>
    [] tag = "Float" -> <<82, 69, 65, 76>>
    [] tag = "Bool" -> <<73, 78, 84, 69, 71, 69, 82>>
    [] tag = "Str" -> <<84, 69, 88, 84>>

\* "CREATE TABLE <table> (<c1> <type1>, ..., <ck> <typek>)" of a registered
\* descriptor, its names taken from the string table of the session.
DdlOf(desc) ==
  CREATE_TABLE \o at(strings, desc.name) \o <<32, 40>>
    \o Join([i \in 1 .. desc.num_fields |->
               at(strings, FieldsOf(desc)[i].name) \o <<32>>
                 \o SqlTypeOf(FieldsOf(desc)[i].data_type.tag)],
            <<44, 32>>)
    \o <<41>>

\* C19: there are never more CREATE TABLE statements than registered
\* descriptors, and the i-th of them is the statement of the i-th
\* descriptor of the registry: one per descriptor, in registry order, none
\* for a frame that register_descriptor refused.
C19_CreateFollowsRegistry ==
  /\ Len(Creates) <= Len(descriptors)
  /\ \A i \in 1 .. Len(Creates) :
       /\ Creates[i].cmd = DdlOf(descriptors[i])
       /\ Creates[i].params = <<>>
  /\ outcome = FATAL_UNEXPECTED_UID => Len(Creates) = Len(descriptors)

\* Two descriptors registered with an entry inserted between them: three
\* statements, two of them CREATE TABLE.
C19_Witness ==
  /\ Len(descriptors) = 2
  /\ Len(ops) = 3
  /\ Len(Creates) = 2
  /\ ~IsCreate(ops[2])

\* ---- the shape of registered descriptors
\* A descriptor of 1 to 32 fields whose slots are 0 .. 31, the first
\* num_fields of them populated and the others empty.
WellFormed(desc) ==
  /\ desc.num_fields >= 1
  /\ desc.num_fields <= MAX_FIELDS
  /\ DOMAIN desc.fields = 0 .. MAX_FIELDS - 1
  /\ \A j \in 0 .. MAX_FIELDS - 1 : desc.fields[j].some <=> j < desc.num_fields

\* C20: every step leaves a registry of well-formed descriptors only, and a
\* Descriptor frame whose field count is 0 or above 32 registers nothing
\* and issues no statement.
C20_RegistryWellFormed ==
  [][ /\ \A i \in 1 .. Len(descriptors') : WellFormed(descriptors'[i])
      /\ (DescParsing /\ Len(Unread) >= 9
            /\ (DescCount = 0 \/ DescCount > MAX_FIELDS)) =>
           /\ descriptors' = descriptors
           /\ ops' = ops ]_vars

\* The registry holds a descriptor of one field and one of two, and an
\* entry has been decoded into the first.
C20_Witness ==
  /\ Len(descriptors) = 2
  /\ descriptors[1].num_fields = 1
  /\ descriptors[2].num_fields = 2
  /\ event = "entry inserted"

====
